---- MODULE Spec2Model ----
(***************************************************************************)
(* A model of pyunlocbox/functions.py: the function objects handed to the  *)
(* proximal-splitting solvers (func, dummy, norm_l1, norm_l2, norm_tv,     *)
(* proj_b2) and the helper _soft_threshold.                                *)
(*                                                                         *)
(* Numbers.  A float is modelled as an exact rational <<n, d>> in lowest   *)
(* terms with d > 0; <<0, 0>> is NaN and <<1, 0>>, <<-1, 0>> are +inf and  *)
(* -inf, so that x/0 and 0/0 behave as numpy's float64 division does.      *)
(* np.sqrt is exact on squares of rationals and otherwise rounded down to  *)
(* a multiple of 1/SqrtDen.  An array is a sequence of numbers; a size-1   *)
(* array broadcasts against a longer one.                                  *)
(***************************************************************************)
EXTENDS Integers, Sequences, FiniteSets, TLC

VARIABLES
    obj,      \* the attributes of the function object (self)
    frame     \* per thread: the call in progress, its locals and its outcome

vars == <<obj, frame>>

Threads == {"t1", "t2"}

(***************************************************************************)
(* float64 arithmetic on rationals                                         *)
(***************************************************************************)
IAbs(n) == IF n < 0 THEN -n ELSE n

RECURSIVE Gcd(_, _)
Gcd(a, b) == IF b = 0 THEN a ELSE Gcd(b, a % b)

\* the rational n/d, d # 0, in lowest terms
Rat(n, d) ==
    LET g == Gcd(IAbs(n), IAbs(d))
        s == IF d < 0 THEN -1 ELSE 1
    IN  <<(s * n) \div g, (s * d) \div g>>

R(n) == <<n, 1>>
NaN == <<0, 0>>
PInf == <<1, 0>>
NInf == <<-1, 0>>

IsNaN(a) == a = NaN
IsFinite(a) == a[2] # 0
Sgn(a) == IF a[1] > 0 THEN 1 ELSE IF a[1] < 0 THEN -1 ELSE 0

FNeg(a) == <<-a[1], a[2]>>
FAbs(a) == <<IAbs(a[1]), a[2]>>

FAdd(a, b) ==
    IF IsNaN(a) \/ IsNaN(b) THEN NaN
    ELSE IF IsFinite(a) /\ IsFinite(b) THEN Rat(a[1] * b[2] + b[1] * a[2], a[2] * b[2])
    ELSE IF IsFinite(a) THEN b
    ELSE IF IsFinite(b) THEN a
    ELSE IF a = b THEN a ELSE NaN

FSub(a, b) == FAdd(a, FNeg(b))

FMul(a, b) ==
    IF IsNaN(a) \/ IsNaN(b) THEN NaN
    ELSE IF IsFinite(a) /\ IsFinite(b) THEN Rat(a[1] * b[1], a[2] * b[2])
    ELSE IF Sgn(a) * Sgn(b) = 0 THEN NaN
    ELSE <<Sgn(a) * Sgn(b), 0>>

\* numpy division: x/0 is +-inf, 0/0 is nan (a warning, not an exception)
FDiv(a, b) ==
    IF IsNaN(a) \/ IsNaN(b) THEN NaN
    ELSE IF IsFinite(b) /\ b[1] # 0
         THEN IF IsFinite(a) THEN Rat(a[1] * b[2], a[2] * b[1])
              ELSE <<Sgn(a) * Sgn(b), 0>>
    ELSE IF IsFinite(b)
         THEN IF Sgn(a) = 0 THEN NaN ELSE <<Sgn(a), 0>>
    ELSE IF IsFinite(a) THEN R(0) ELSE NaN

\* comparisons are False when an operand is NaN
FLt(a, b) ==
    /\ ~IsNaN(a) /\ ~IsNaN(b)
    /\ IF IsFinite(a) /\ IsFinite(b) THEN a[1] * b[2] < b[1] * a[2]
       ELSE IF IsFinite(a) THEN b = PInf
       ELSE IF IsFinite(b) THEN a = NInf
       ELSE a = NInf /\ b = PInf

FLe(a, b) == ~IsNaN(a) /\ ~IsNaN(b) /\ (a = b \/ FLt(a, b))

\* np.maximum propagates NaN
FMaximum(a, b) == IF IsNaN(a) \/ IsNaN(b) THEN NaN ELSE IF FLt(a, b) THEN b ELSE a

\* Python's builtin min(a, b): b if b < a else a
PyMin(a, b) == IF FLt(b, a) THEN b ELSE a

\* np.sign
FSign(a) == IF IsNaN(a) THEN NaN ELSE R(Sgn(a))

\* np.nan_to_num: nan becomes 0; the model never sends an infinity through it
NanToNum(a) == IF IsNaN(a) THEN R(0) ELSE a

SqrtDen == 4

\* the k with k*k <= n < (k+1)*(k+1), known to lie in lo..(hi - 1)
RECURSIVE ISqrtIn(_, _, _)
ISqrtIn(n, lo, hi) ==
    IF hi - lo <= 1 THEN lo
    ELSE LET mid == (lo + hi) \div 2
         IN  IF mid * mid <= n THEN ISqrtIn(n, mid, hi) ELSE ISqrtIn(n, lo, mid)
\* floor of the square root of the natural number n
ISqrt(n) == ISqrtIn(n, 0, IF n < 46340 THEN n + 1 ELSE 46341)

\* np.sqrt of a number >= 0
FSqrt(a) ==
    IF IsNaN(a) \/ FLt(a, R(0)) THEN NaN
    ELSE IF ~IsFinite(a) THEN a
    ELSE LET rn == ISqrt(a[1])
             rd == ISqrt(a[2])
         IN  IF rn * rn = a[1] /\ rd * rd = a[2] THEN Rat(rn, rd)
             ELSE Rat(ISqrt((a[1] * SqrtDen * SqrtDen) \div a[2]), SqrtDen)

(***************************************************************************)
(* arrays: elementwise operations with broadcasting of size-1 operands     *)
(***************************************************************************)
IMax(m, n) == IF m > n THEN m ELSE n
At1(a, i) == IF Len(a) = 1 THEN a[1] ELSE a[i]

\* the array as a tuple of evaluated numbers
Eval(f) == f \o <<>>

VAdd(a, b) == Eval([i \in 1..IMax(Len(a), Len(b)) |-> FAdd(At1(a, i), At1(b, i))])
VSub(a, b) == Eval([i \in 1..IMax(Len(a), Len(b)) |-> FSub(At1(a, i), At1(b, i))])
VMul(a, b) == Eval([i \in 1..IMax(Len(a), Len(b)) |-> FMul(At1(a, i), At1(b, i))])
VDiv(a, b) == Eval([i \in 1..IMax(Len(a), Len(b)) |-> FDiv(At1(a, i), At1(b, i))])
VMaximum(a, b) == Eval([i \in 1..IMax(Len(a), Len(b)) |-> FMaximum(At1(a, i), At1(b, i))])
VAbs(a) == Eval([i \in 1..Len(a) |-> FAbs(a[i])])
VNeg(a) == Eval([i \in 1..Len(a) |-> FNeg(a[i])])
VSign(a) == Eval([i \in 1..Len(a) |-> FSign(a[i])])
VNanToNum(a) == Eval([i \in 1..Len(a) |-> NanToNum(a[i])])
VScale(c, a) == Eval([i \in 1..Len(a) |-> FMul(c, a[i])])
VZeros(n) == Eval([i \in 1..n |-> R(0)])

RECURSIVE VSum(_)
VSum(a) == IF Len(a) = 0 THEN R(0) ELSE FAdd(a[1], VSum(Tail(a)))

\* np.linalg.norm(a, 2)
VNorm(a) == FSqrt(VSum(VMul(a, a)))

\* a vector of integers as an array
Vec(s) == Eval([i \in 1..Len(s) |-> R(s[i])])

(***************************************************************************)
(* _soft_threshold(z, T, handle_complex)                                   *)
(***************************************************************************)
\* as soft_threshold_complex, without np.nan_to_num
soft_threshold_complex_nan(z, sz, T) == VMul(VDiv(sz, VAdd(sz, T)), z)

soft_threshold_complex(z, sz, T) == VNanToNum(VMul(VDiv(sz, VAdd(sz, T)), z))

soft_threshold(z, T, handle_complex) ==
    LET sz == VMaximum(VSub(VAbs(z), T), <<R(0)>>)
    IN  IF ~handle_complex THEN VMul(VSign(z), sz)
        ELSE soft_threshold_complex(z, sz, T)

(***************************************************************************)
(* linear operators: func.__init__ turns a matrix into x |-> np.dot(A, x)   *)
(***************************************************************************)
Identity == [form |-> "identity", M |-> <<>>]
Matrix(m) == [form |-> "ndarray", M |-> m]
NoOp == [form |-> "None", M |-> <<>>]

Transpose(m) == Eval([j \in 1..Len(m[1]) |-> Eval([i \in 1..Len(m) |-> m[i][j]])])

RECURSIVE DotRow(_, _)
DotRow(row, x) ==
    IF Len(row) = 0 THEN R(0)
    ELSE FAdd(FMul(R(row[1]), x[1]), DotRow(Tail(row), Tail(x)))

\* np.dot(m, x) for a matrix m and a vector x of matching length
Dot(m, x) == Eval([i \in 1..Len(m) |-> DotRow(m[i], x)])

\* calling self.A or self.At
Apply(op, x) == IF op.form = "identity" THEN x ELSE Dot(op.M, x)

(***************************************************************************)
(* construction: func.__init__, norm.__init__, proj.__init__               *)
(***************************************************************************)
\* the keyword arguments of a constructor and their defaults
Defaults ==
    [y |-> <<R(0)>>, A |-> NoOp, At |-> NoOp, tight |-> TRUE, nu |-> R(1),
     tol |-> Rat(1, 1000), maxit |-> 200, lambda_ |-> R(1), w |-> <<R(1)>>,
     epsilon |-> Rat(1, 1000), method |-> [text |-> "FISTA", literal |-> TRUE]]

func_init(kind, kw) ==
    [kind |-> kind,
     y |-> kw.y,
     A |-> IF kw.A.form = "None" THEN Identity ELSE kw.A,
     At |-> IF kw.At.form = "None"
            THEN IF kw.A.form = "ndarray" THEN Matrix(Transpose(kw.A.M))
                 ELSE IF kw.A.form = "None" THEN Identity ELSE kw.A
            ELSE kw.At,
     tight |-> kw.tight, nu |-> kw.nu, tol |-> kw.tol, maxit |-> kw.maxit,
     lambda_ |-> kw.lambda_, w |-> kw.w,
     epsilon |-> kw.epsilon, method |-> kw.method,
     verbosity |-> "NONE"]

\* the configuration of a function object: every attribute but the verbosity flag
Config(o) ==
    [y |-> o.y, A |-> o.A, At |-> o.At, tight |-> o.tight, nu |-> o.nu,
     tol |-> o.tol, maxit |-> o.maxit, lambda_ |-> o.lambda_, w |-> o.w,
     epsilon |-> o.epsilon, method |-> o.method]

(***************************************************************************)
(* what a call produces: a value, or an exception                          *)
(***************************************************************************)
Scalar(v) == [tag |-> "scalar", data |-> <<v>>, err |-> "", caps |-> <<>>]
Array(a) == [tag |-> "array", data |-> a, err |-> "", caps |-> <<>>]
Raise(e) == [tag |-> "raise", data |-> <<>>, err |-> e, caps |-> <<>>]
CapList(c) == [tag |-> "caps", data |-> <<>>, err |-> "", caps |-> c]
NoOutcome == [tag |-> "none", data |-> <<>>, err |-> "", caps |-> <<>>]

Raises(out, e) == out.tag = "raise" /\ out.err = e
Returns(out) == out.tag \in {"scalar", "array"}

(***************************************************************************)
(* _eval, _grad and _prox of the classes with closed forms                 *)
(***************************************************************************)
norm_l1_eval(o, x) ==
    LET sol == VSub(Apply(o.A, x), o.y)
    IN  Scalar(FMul(o.lambda_, VSum(VAbs(VMul(o.w, sol)))))

\* as norm_l1_prox, with gamma = T: lambda_ forgotten
norm_l1_prox_unscaled(o, x, T) ==
    IF o.tight
    THEN LET sol1 == VSub(Apply(o.A, x), o.y)
             sol2 == VSub(soft_threshold(sol1, VScale(FMul(T, o.nu), o.w), TRUE), sol1)
         IN  Array(VAdd(x, VDiv(Apply(o.At, sol2), <<o.nu>>)))
    ELSE Raise("NotImplementedError")

\* as norm_l1_prox, without the test of self.tight
norm_l1_prox_untested(o, x, T) ==
    LET gamma == FMul(o.lambda_, T)
        sol1 == VSub(Apply(o.A, x), o.y)
        sol2 == VSub(soft_threshold(sol1, VScale(FMul(gamma, o.nu), o.w), TRUE), sol1)
    IN  Array(VAdd(x, VDiv(Apply(o.At, sol2), <<o.nu>>)))

norm_l1_prox(o, x, T) ==
    LET gamma == FMul(o.lambda_, T)
    IN  IF o.tight
        THEN LET sol1 == VSub(Apply(o.A, x), o.y)
                 sol2 == VSub(soft_threshold(sol1, VScale(FMul(gamma, o.nu), o.w), TRUE), sol1)
             IN  Array(VAdd(x, VDiv(Apply(o.At, sol2), <<o.nu>>)))
        ELSE Raise("NotImplementedError")

norm_l2_eval(o, x) ==
    LET sol == VSub(Apply(o.A, x), o.y)
        ws == VMul(o.w, sol)
    IN  Scalar(FMul(o.lambda_, VSum(VMul(ws, ws))))

\* as norm_l2_prox, with nu left out of the divisor
norm_l2_prox_nonu(o, x, T) ==
    LET gamma == FMul(o.lambda_, T)
        w2 == VMul(o.w, o.w)
    IN  IF o.tight
        THEN LET sol == VAdd(x, VScale(FMul(R(2), gamma), Apply(o.At, VMul(o.y, w2))))
             IN  Array(VDiv(sol, VAdd(<<R(1)>>, VScale(FMul(R(2), gamma), w2))))
        ELSE Raise("NotImplementedError")

norm_l2_prox(o, x, T) ==
    LET gamma == FMul(o.lambda_, T)
        w2 == VMul(o.w, o.w)
    IN  IF o.tight
        THEN LET sol == VAdd(x, VScale(FMul(R(2), gamma), Apply(o.At, VMul(o.y, w2))))
             IN  Array(VDiv(sol, VAdd(<<R(1)>>, VScale(FMul(FMul(R(2), gamma), o.nu), w2))))
        ELSE Raise("NotImplementedError")

norm_l2_grad(o, x) ==
    LET sol == VSub(Apply(o.A, x), o.y)
    IN  Array(VMul(VScale(FMul(R(2), o.lambda_), o.w), Apply(o.At, sol)))

\* self._eval(np.array(x)) as func.eval calls it
call_eval(o, x) ==
    CASE o.kind = "func" -> Raise("NotImplementedError")
      [] o.kind \in {"func_eval", "func_eval_grad"} -> Array(VMul(x, x))
      [] o.kind = "dummy" -> Scalar(R(0))
      [] o.kind = "norm_l1" -> norm_l1_eval(o, x)
      [] o.kind = "norm_l2" -> norm_l2_eval(o, x)
      [] o.kind = "norm_tv" -> Raise("TypeError")
      [] o.kind = "proj_b2" -> Scalar(R(0))

\* self._grad(np.array(x)) as func.grad calls it; norm_tv overrides grad itself
call_grad(o, x) ==
    CASE o.kind \in {"func", "func_eval", "norm_l1", "proj_b2"} -> Raise("NotImplementedError")
      [] o.kind = "func_eval_grad" -> Array(VScale(R(2), x))
      [] o.kind = "dummy" -> Array(VZeros(Len(x)))
      [] o.kind = "norm_l2" -> norm_l2_grad(o, x)
      [] o.kind = "norm_tv" -> Raise("TypeError")

\* '%e' % sol: a float is needed, an array of more than one element is none
CanFormat(out) == out.tag = "scalar" \/ Len(out.data) = 1

\* the part of func.eval after self._eval returned sol
eval_report(o, sol) ==
    IF sol.tag = "raise" THEN sol
    ELSE IF o.verbosity \in {"LOW", "HIGH"} /\ ~CanFormat(sol) THEN Raise("TypeError")
    ELSE sol

\* func.eval
func_eval(o, x) == eval_report(o, call_eval(o, x))

\* func.grad
func_grad(o, x) == call_grad(o, x)

(***************************************************************************)
(* proj_b2._prox: the locals of one call and the steps that change them     *)
(***************************************************************************)
IsMethod(o, name) == o.method.text = name /\ o.method.literal

\* the locals before anything is assigned
B2Locals ==
    [sol |-> <<>>, u |-> <<>>, v_last |-> <<>>, t_last |-> R(0), niter |-> 0,
     crit |-> "None", norm_res |-> R(0), exc |-> ""]

epsilon_low(o) == FDiv(o.epsilon, FAdd(R(1), o.tol))
epsilon_up(o) == FDiv(o.epsilon, FSub(R(1), o.tol))

\* as b2_tight, the scaling taken without the min: the residual is always
\* brought onto the sphere
b2_tight_unclamped(o, x) ==
    LET tmp1 == VSub(Apply(o.A, x), o.y)
        tmp2 == VScale(FDiv(o.epsilon, VNorm(tmp1)), tmp1)
    IN  [B2Locals EXCEPT !.sol = VAdd(x, VDiv(Apply(o.At, VSub(tmp2, tmp1)), <<o.nu>>)),
                         !.crit = "TOL", !.u = <<NaN>>]

\* the tight branch: the closed form
b2_tight(o, x) ==
    LET tmp1 == VSub(Apply(o.A, x), o.y)
        tmp2 == VScale(PyMin(R(1), FDiv(o.epsilon, VNorm(tmp1))), tmp1)
    IN  [B2Locals EXCEPT !.sol = VAdd(x, VDiv(Apply(o.At, VSub(tmp2, tmp1)), <<o.nu>>)),
                         !.crit = "TOL", !.u = <<NaN>>]

\* the non tight branch up to the loop
b2_start(o, x) ==
    LET l0 == [B2Locals EXCEPT !.sol = x, !.u = VZeros(Len(o.y))]
        l1 == IF IsMethod(o, "FISTA") THEN [l0 EXCEPT !.v_last = l0.u, !.t_last = R(1)]
              ELSE l0
        nr == VNorm(VSub(o.y, Apply(o.A, x)))
    IN  IF ~IsMethod(o, "FISTA") /\ ~IsMethod(o, "ISTA") THEN [l0 EXCEPT !.exc = "ValueError"]
        ELSE IF o.tol = R(1) THEN [l1 EXCEPT !.exc = "ZeroDivisionError"]
        ELSE [l1 EXCEPT !.norm_res = nr,
                        !.crit = IF FLe(nr, epsilon_up(o)) THEN "INBALL" ELSE "None"]

\* everything before the while loop
b2_init(o, x) == IF o.tight THEN b2_tight(o, x) ELSE b2_start(o, x)

\* the stopping criterion at the end of an iteration
b2_crit(o, norm_res, niter) ==
    IF FLe(epsilon_low(o), norm_res) /\ FLe(norm_res, epsilon_up(o)) THEN "TOL"
    ELSE IF niter >= o.maxit THEN "MAXIT"
    ELSE "None"

\* the FISTA time step
b2_time_step(t_last) ==
    FDiv(FAdd(R(1), FSqrt(FAdd(R(1), FMul(R(4), FMul(t_last, t_last))))), R(2))

\* one pass through the body of the while loop
b2_iterate(o, x, l) ==
    LET niter == l.niter + 1
        res0 == VSub(Apply(o.A, l.sol), o.y)
        norm_res == VNorm(res0)
        res == VAdd(res0, VScale(o.nu, l.u))
        norm_proj == VNorm(res)
        ratio == PyMin(R(1), FDiv(o.epsilon, norm_proj))
        v == VScale(FDiv(R(1), o.nu), VSub(res, VScale(ratio, res)))
        t == b2_time_step(l.t_last)
        fista == IsMethod(o, "FISTA")
        u == IF fista
             THEN VAdd(v, VScale(FDiv(FSub(l.t_last, R(1)), t), VSub(v, l.v_last)))
             ELSE v
    IN  [l EXCEPT !.niter = niter, !.norm_res = norm_res, !.u = u,
                  !.v_last = IF fista THEN v ELSE l.v_last,
                  !.t_last = IF fista THEN t ELSE l.t_last,
                  !.sol = VSub(x, Apply(o.At, u)),
                  !.crit = b2_crit(o, norm_res, niter)]

\* the while loop, run to its end
RECURSIVE b2_loop(_, _, _)
b2_loop(o, x, l) == IF l.crit # "None" THEN l ELSE b2_loop(o, x, b2_iterate(o, x, l))

\* the locals when proj_b2._prox leaves, by return or by an exception
b2_run(o, x) ==
    LET l == b2_init(o, x)
    IN  IF l.exc # "" \/ o.tight THEN l ELSE b2_loop(o, x, l)

b2_outcome(l) == IF l.exc # "" THEN Raise(l.exc) ELSE Array(l.sol)

proj_b2_prox(o, x, T) == b2_outcome(b2_run(o, x))

\* self._prox(np.array(x), T) as func.prox calls it
call_prox(o, x, T) ==
    CASE o.kind \in {"func", "func_eval", "func_eval_grad"} -> Raise("NotImplementedError")
      [] o.kind = "dummy" -> Array(x)
      [] o.kind = "norm_l1" -> norm_l1_prox(o, x, T)
      [] o.kind = "norm_l2" -> norm_l2_prox(o, x, T)
      [] o.kind = "norm_tv" -> Raise("TypeError")
      [] o.kind = "proj_b2" -> proj_b2_prox(o, x, T)

\* func.prox
func_prox(o, x, T) == call_prox(o, x, T)

(***************************************************************************)
(* func.cap: the statements that assign self.verbosity, and the probes      *)
(***************************************************************************)
\* self.verbosity = 'NONE'
cap_silence(o) == [o EXCEPT !.verbosity = "NONE"]

\* self.verbosity = tmp
cap_restore(o, tmp) == [o EXCEPT !.verbosity = tmp]

Remove(cap, name) == SelectSeq(cap, LAMBDA c: c # name)

\* as cap_probe, with a bare except: every exception removes the name
cap_probe_any(cap, name, out) ==
    [cap |-> IF out.tag = "raise" THEN Remove(cap, name) ELSE cap, exc |-> ""]

\* try: <primitive> except NotImplementedError: cap.remove(name)
\* the list afterwards, and the exception the try statement lets through
cap_probe(cap, name, out) ==
    [cap |-> IF Raises(out, "NotImplementedError") THEN Remove(cap, name) ELSE cap,
     exc |-> IF out.tag = "raise" /\ out.err # "NotImplementedError" THEN out.err ELSE ""]

\* as b2_self, had the residual been formed in place in the array of self.y
b2_self_alias(o, x, l) ==
    [o EXCEPT !.y = VAdd(VSub(Apply(o.A, l.sol), o.y), VScale(o.nu, l.u))]

\* the attributes of self after one pass of the loop of proj_b2._prox: the
\* residual is a new array (A(sol) - y allocates), so res += u*nu writes
\* nothing that self holds
b2_self(o, x, l) == o

(***************************************************************************)
(* the calls of the threads                                                *)
(***************************************************************************)
Idle ==
    [pc |-> "idle", op |-> "", x |-> <<>>, T |-> R(0), flag |-> TRUE, sol |-> NoOutcome,
     loc |-> B2Locals, tmp |-> "", cap |-> <<>>, out |-> NoOutcome]

Free(t) == frame[t].pc \in {"idle", "done"}

\* the frame of a call that has just been entered
Entered(op, x, T) == [Idle EXCEPT !.pc = op, !.op = op, !.x = x, !.T = T]

\* as Locals, had the iteration state been kept in one place for the object:
\* a call in the loop works on the state of the first thread while that one iterates
SharedLocals(t) ==
    IF frame["t1"].pc \in {"b2_loop", "b2_report"} THEN frame["t1"].loc ELSE frame[t].loc

\* the locals a call of proj_b2._prox works on: those of its own frame
Locals(t) == frame[t].loc

Leave(t, out) == frame' = [frame EXCEPT ![t].pc = "done", ![t].out = out]

\* the points and steps the callers pass
Points == {Vec(<<3, 4>>), Vec(<<1, -2>>), Vec(<<0, 0>>)}
Steps == {Rat(1, 2)}

EvalCall(t) ==
    /\ Free(t)
    /\ \E x \in Points: frame' = [frame EXCEPT ![t] = Entered("eval", x, R(0))]
    /\ UNCHANGED obj

\* sol = self._eval(np.array(x))
EvalBody(t) ==
    /\ frame[t].pc = "eval"
    /\ frame' = [frame EXCEPT ![t].pc = "eval_report", ![t].sol = call_eval(obj, frame[t].x)]
    /\ UNCHANGED obj

\* the diagnostic and the return of func.eval
EvalReturn(t) ==
    /\ frame[t].pc = "eval_report"
    /\ Leave(t, eval_report(obj, frame[t].sol))
    /\ UNCHANGED obj

GradCall(t) ==
    /\ Free(t)
    /\ \E x \in Points: frame' = [frame EXCEPT ![t] = Entered("grad", x, R(0))]
    /\ UNCHANGED obj

GradReturn(t) ==
    /\ frame[t].pc = "grad"
    /\ Leave(t, func_grad(obj, frame[t].x))
    /\ UNCHANGED obj

ProxCall(t) ==
    /\ Free(t)
    /\ \E x \in Points, T \in Steps: frame' = [frame EXCEPT ![t] = Entered("prox", x, T)]
    /\ UNCHANGED obj

\* a proximal operator without a loop
ProxClosed(t) ==
    /\ frame[t].pc = "prox"
    /\ obj.kind # "proj_b2"
    /\ Leave(t, func_prox(obj, frame[t].x, frame[t].T))
    /\ UNCHANGED obj

\* proj_b2._prox up to the while loop
B2Init(t) ==
    /\ frame[t].pc = "prox"
    /\ obj.kind = "proj_b2"
    /\ LET l == b2_init(obj, frame[t].x)
       IN  IF l.exc # "" \/ obj.tight
           THEN frame' = [frame EXCEPT ![t].pc = "done", ![t].loc = l, ![t].out = b2_outcome(l)]
           ELSE frame' = [frame EXCEPT ![t].loc = l,
                              ![t].pc = IF l.crit = "None" THEN "b2_loop" ELSE "b2_report"]
    /\ UNCHANGED obj

\* one iteration of the while loop
B2Iterate(t) ==
    /\ frame[t].pc = "b2_loop"
    /\ LET l == b2_iterate(obj, frame[t].x, Locals(t))
       IN  /\ frame' = [frame EXCEPT ![t].loc = l,
                            ![t].pc = IF l.crit = "None" THEN "b2_loop" ELSE "b2_report"]
           /\ obj' = b2_self(obj, frame[t].x, Locals(t))

\* the closing diagnostic and return sol
B2Report(t) ==
    /\ frame[t].pc = "b2_report"
    /\ Leave(t, b2_outcome(Locals(t)))
    /\ UNCHANGED obj

CapCall(t) ==
    /\ Free(t)
    /\ \E x \in Points: frame' = [frame EXCEPT ![t] = Entered("cap", x, R(1))]
    /\ UNCHANGED obj

\* tmp = self.verbosity
CapSave(t) ==
    /\ frame[t].pc = "cap"
    /\ frame' = [frame EXCEPT ![t].pc = "cap_silence", ![t].tmp = obj.verbosity]
    /\ UNCHANGED obj

CapSilence(t) ==
    /\ frame[t].pc = "cap_silence"
    /\ obj' = cap_silence(obj)
    /\ frame' = [frame EXCEPT ![t].pc = "cap_eval", ![t].cap = <<"EVAL", "GRAD", "PROX">>]

\* the frame after a probe: an exception the try statement lets through ends
\* the call of cap
Probed(f, name, out, next) ==
    LET r == cap_probe(f.cap, name, out)
    IN  IF r.exc # "" THEN [f EXCEPT !.pc = "done", !.out = Raise(r.exc)]
        ELSE [f EXCEPT !.pc = next, !.cap = r.cap]

CapEval(t) ==
    /\ frame[t].pc = "cap_eval"
    /\ frame' = [frame EXCEPT ![t] = Probed(@, "EVAL", func_eval(obj, @.x), "cap_grad")]
    /\ UNCHANGED obj

CapGrad(t) ==
    /\ frame[t].pc = "cap_grad"
    /\ frame' = [frame EXCEPT ![t] = Probed(@, "GRAD", func_grad(obj, @.x), "cap_prox")]
    /\ UNCHANGED obj

CapProx(t) ==
    /\ frame[t].pc = "cap_prox"
    /\ frame' = [frame EXCEPT ![t] = Probed(@, "PROX", func_prox(obj, @.x, R(1)), "cap_restore")]
    /\ UNCHANGED obj

CapRestore(t) ==
    /\ frame[t].pc = "cap_restore"
    /\ obj' = cap_restore(obj, frame[t].tmp)
    /\ Leave(t, CapList(frame[t].cap))

\* the caller (the solver) sets the diagnostic flag
SetVerbosity ==
    /\ \E v \in {"NONE", "LOW", "HIGH"}: v # obj.verbosity /\ obj' = [obj EXCEPT !.verbosity = v]
    /\ UNCHANGED frame

(***************************************************************************)
(* the function objects under study                                        *)
(***************************************************************************)
Twice == <<<<2, 0>>, <<0, 2>>>>        \* 2*I: a tight frame with nu = 4
Shear == <<<<1, 1>>, <<0, 1>>>>        \* not a tight frame

Literal(m) == [text |-> m, literal |-> TRUE]
\* an equal string that is another object than the literal of the module
Built(m) == [text |-> m, literal |-> FALSE]

NormObjects(kind) ==
    { func_init(kind, kw) : kw \in
        { Defaults,
          [Defaults EXCEPT !.y = Vec(<<1, 2>>), !.lambda_ = R(2)],
          [Defaults EXCEPT !.w = Vec(<<1, 2>>), !.y = Vec(<<1, 0>>)],
          [Defaults EXCEPT !.tight = FALSE],
          [Defaults EXCEPT !.tight = FALSE, !.A = Matrix(Shear), !.nu = R(3)],
          [Defaults EXCEPT !.A = Matrix(Twice), !.nu = R(4), !.y = Vec(<<2, -2>>)] } }

BallMaxit == 2

BallObjects ==
    { func_init("proj_b2", kw) : kw \in
        { [Defaults EXCEPT !.epsilon = R(1), !.y = Vec(<<0, 0>>)],
          [Defaults EXCEPT !.epsilon = R(1), !.y = Vec(<<3, 4>>)],
          [Defaults EXCEPT !.epsilon = R(1), !.A = Matrix(Twice), !.nu = R(4)],
          [Defaults EXCEPT !.epsilon = R(1), !.tight = FALSE, !.tol = Rat(1, 2),
                           !.maxit = BallMaxit],
          [Defaults EXCEPT !.epsilon = R(1), !.tight = FALSE, !.tol = Rat(1, 10),
                           !.maxit = BallMaxit, !.A = Matrix(Twice), !.nu = R(4)],
          [Defaults EXCEPT !.epsilon = R(1), !.tight = FALSE, !.tol = Rat(1, 10),
                           !.maxit = BallMaxit, !.method = Literal("ISTA"),
                           !.y = Vec(<<1, 0>>)],
          [Defaults EXCEPT !.epsilon = R(1), !.tight = FALSE, !.maxit = 0,
                           !.method = Literal("ISTA")],
          [Defaults EXCEPT !.epsilon = R(1), !.tight = FALSE, !.method = Literal("OTHER")],
          [Defaults EXCEPT !.epsilon = R(1), !.tight = FALSE, !.maxit = BallMaxit,
                           !.method = Built("FISTA")] } }

Objects ==
    { func_init(kind, Defaults) : kind \in {"func", "func_eval", "func_eval_grad", "dummy", "norm_tv"} }
    \cup NormObjects("norm_l1") \cup NormObjects("norm_l2") \cup BallObjects

(***************************************************************************)
(* Spec: one function object, two threads calling eval, grad, prox and cap, *)
(* and the caller setting the verbosity flag                               *)
(***************************************************************************)
Init ==
    /\ obj \in Objects
    /\ frame = [t \in Threads |-> Idle]

Calls(t) ==
    \/ EvalCall(t) \/ EvalBody(t) \/ EvalReturn(t)
    \/ GradCall(t) \/ GradReturn(t)
    \/ ProxCall(t) \/ ProxClosed(t) \/ B2Init(t) \/ B2Iterate(t) \/ B2Report(t)

Caps(t) ==
    \/ CapCall(t) \/ CapSave(t) \/ CapSilence(t)
    \/ CapEval(t) \/ CapGrad(t) \/ CapProx(t) \/ CapRestore(t)

Next ==
    \/ \E t \in Threads: Calls(t)
    \/ \E t \in Threads: Caps(t)
    \/ SetVerbosity

Spec == Init /\ [][Next]_vars

(***************************************************************************)
(* SpecCalls: eval, grad and prox calls only, interleaved, under a flag    *)
(* the caller set before the run                                           *)
(***************************************************************************)
InitCalls ==
    /\ \E o \in Objects, v \in {"NONE", "LOW", "HIGH"}: obj = [o EXCEPT !.verbosity = v]
    /\ frame = [t \in Threads |-> Idle]

NextCalls == \E t \in Threads: Calls(t)

SpecCalls == InitCalls /\ [][NextCalls]_vars

(***************************************************************************)
(* SpecCap: the caller sets the verbosity flag and keeps its value, then    *)
(* each thread makes one call: cap on the first thread, cap or eval on the  *)
(* second                                                                   *)
(***************************************************************************)
\* the frame of the caller: f.verbosity = v before the threads start
Caller(v) == [pc |-> "main", verbosity |-> v]

InitCap ==
    \E o \in Objects, v \in {"NONE", "LOW", "HIGH"}:
        /\ obj = [o EXCEPT !.verbosity = v]
        /\ frame = [t \in Threads \cup {"main"} |-> IF t = "main" THEN Caller(v) ELSE Idle]

CapOnce(t) == frame[t].pc = "idle" /\ CapCall(t)

EvalOnce(t) == frame[t].pc = "idle" /\ EvalCall(t)

\* the statements of a call of cap after its entry
CapSteps(t) ==
    \/ CapSave(t) \/ CapSilence(t)
    \/ CapEval(t) \/ CapGrad(t) \/ CapProx(t) \/ CapRestore(t)

NextCap ==
    \/ \E t \in Threads: CapOnce(t)
    \/ \E t \in Threads: CapSteps(t)
    \/ EvalOnce("t2") \/ EvalBody("t2") \/ EvalReturn("t2")

SpecCap == InitCap /\ [][NextCap]_vars

(***************************************************************************)
(* SpecSoft: _soft_threshold applied to real signals and thresholds >= 0   *)
(***************************************************************************)
MaxAbs == 2

\* the halves from -MaxAbs to MaxAbs, and those that are >= 0
Halves == { Rat(k, 2) : k \in (-2 * MaxAbs)..(2 * MaxAbs) }
Thresholds == { h \in Halves : h[1] >= 0 }

Signals == { <<a>> : a \in Halves } \cup { <<a, b>> : a, b \in Halves }

InitSoft ==
    /\ obj = func_init("func", Defaults)
    /\ \E z \in Signals, hc \in BOOLEAN:
         \E T \in { <<a>> : a \in Thresholds }
                  \cup { <<a, b>> : a, b \in IF Len(z) = 2 THEN Thresholds ELSE {} }:
            frame = [t \in Threads |->
                        IF t = "t1" THEN [Entered("soft", z, T) EXCEPT !.flag = hc] ELSE Idle]

SoftThreshold(t) ==
    /\ frame[t].pc = "soft"
    /\ Leave(t, Array(soft_threshold(frame[t].x, frame[t].T, frame[t].flag)))
    /\ UNCHANGED obj

NextSoft == \E t \in Threads: SoftThreshold(t)

SpecSoft == InitSoft /\ [][NextSoft]_vars

(***************************************************************************)
(* SpecNorm: eval, grad and prox of norm_l1 and norm_l2 objects over a      *)
(* range of lambda_, w, y, A, nu and tight                                  *)
(***************************************************************************)
Frames ==
    { [tight |-> TRUE, A |-> NoOp, nu |-> R(1)],
      [tight |-> FALSE, A |-> NoOp, nu |-> R(1)],
      [tight |-> TRUE, A |-> Matrix(Twice), nu |-> R(4)] }

\* with a matrix A the measurements y are a vector of as many rows
NormSpace ==
    { o \in
        { func_init(kind, [Defaults EXCEPT !.lambda_ = l, !.w = w, !.y = y, !.tight = f.tight,
                                           !.A = f.A, !.nu = f.nu]) :
            kind \in {"norm_l1", "norm_l2"},
            l \in {R(0), R(1), R(2), Rat(1, 2)},
            w \in {<<R(1)>>, Vec(<<1, 2>>)},
            y \in {<<R(0)>>, <<R(1)>>, Vec(<<1, -2>>)},
            f \in Frames } :
        o.A.form = "ndarray" => Len(o.y) = Len(o.A.M) }

DocPoint == Vec(<<1, 2, 3, 4>>)
NormPoints == { Vec(<<a, b>>) : a, b \in (-MaxAbs)..MaxAbs } \cup {DocPoint}
NormSteps == {Rat(1, 2)}

\* a point of a size consistent with the object
Consistent(o, x) ==
    /\ Len(o.y) \in {1, Len(x)}
    /\ Len(o.w) \in {1, Len(x)}
    /\ o.A.form = "ndarray" => Len(x) = Len(o.A.M)

InitNorm ==
    /\ obj \in NormSpace
    /\ frame = [t \in Threads |-> Idle]

NormEvalCall(t) ==
    /\ Free(t)
    /\ \E x \in NormPoints:
          /\ Consistent(obj, x)
          /\ frame' = [frame EXCEPT ![t] = Entered("eval", x, R(0))]
    /\ UNCHANGED obj

NormGradCall(t) ==
    /\ Free(t)
    /\ \E x \in NormPoints:
          /\ Consistent(obj, x)
          /\ frame' = [frame EXCEPT ![t] = Entered("grad", x, R(0))]
    /\ UNCHANGED obj

NormProxCall(t) ==
    /\ Free(t)
    /\ \E x \in NormPoints, T \in NormSteps:
          /\ Consistent(obj, x)
          /\ frame' = [frame EXCEPT ![t] = Entered("prox", x, T)]
    /\ UNCHANGED obj

NextNorm ==
    \/ NormEvalCall("t1") \/ EvalBody("t1") \/ EvalReturn("t1")
    \/ NormGradCall("t1") \/ GradReturn("t1")
    \/ NormProxCall("t1") \/ ProxClosed("t1")

SpecNorm == InitNorm /\ [][NextNorm]_vars

(***************************************************************************)
(* SpecBall: prox of proj_b2 objects over a range of tight, method, maxit,  *)
(* tol, A and y, the loop of the non tight branch taken pass by pass        *)
(***************************************************************************)
BallFrames ==
    { [A |-> NoOp, nu |-> R(1), y |-> Vec(<<0, 0>>)],
      [A |-> NoOp, nu |-> R(1), y |-> Vec(<<3, 4>>)],
      [A |-> Matrix(Twice), nu |-> R(4), y |-> Vec(<<0, 0>>)],
      [A |-> Matrix(Shear), nu |-> R(1), y |-> Vec(<<0, 0>>)] }

\* with the frame that is not tight and nu = 1 the iteration does not settle,
\* and its exact fractions outgrow the integers after two passes: these
\* objects are given a maxit of at most 2
BallSpace ==
    { o \in
        { func_init("proj_b2", [Defaults EXCEPT !.epsilon = R(1), !.tight = tight, !.method = m,
                                                !.maxit = maxit, !.tol = tol,
                                                !.A = f.A, !.nu = f.nu, !.y = f.y]) :
            tight \in BOOLEAN,
            m \in {Literal("FISTA"), Literal("ISTA"), Literal("OTHER"), Built("FISTA")},
            maxit \in 0..BallMaxit,
            tol \in {Rat(1, 2), Rat(1, 10), R(1)},
            f \in BallFrames } :
        o.A = Matrix(Shear) => o.maxit <= 2 }

BallPoints ==
    {Vec(<<3, 4>>), Vec(<<0, 0>>), Vec(<<6, 8>>), <<Rat(3, 5), Rat(4, 5)>>, Vec(<<0, 2>>)}

InitBall ==
    /\ obj \in BallSpace
    /\ frame = [t \in Threads |-> Idle]

BallProxCall(t) ==
    /\ Free(t)
    /\ \E x \in BallPoints: frame' = [frame EXCEPT ![t] = Entered("prox", x, R(1))]
    /\ UNCHANGED obj

NextBall == BallProxCall("t1") \/ B2Init("t1") \/ B2Iterate("t1") \/ B2Report("t1")

SpecBall == InitBall /\ [][NextBall]_vars

(***************************************************************************)
(* norm_tv: arrays of several axes.  An array is [nd, a]: nd axes, a the   *)
(* nested tuples of its integer entries; axes are numbered from 0.         *)
(***************************************************************************)
ND(nd, a) == [nd |-> nd, a |-> a]

RECURSIVE NestShape(_, _)
NestShape(a, nd) == IF nd = 0 THEN <<>> ELSE <<Len(a)>> \o NestShape(a[1], nd - 1)
\* np.shape(x)
Shape(x) == NestShape(x.a, x.nd)

RECURSIVE NestSub(_, _, _)
NestSub(a, b, nd) ==
    IF nd = 0 THEN a - b ELSE Eval([i \in 1..Len(a) |-> NestSub(a[i], b[i], nd - 1)])

RECURSIVE NestAdd(_, _, _)
NestAdd(a, b, nd) ==
    IF nd = 0 THEN a + b ELSE Eval([i \in 1..Len(a) |-> NestAdd(a[i], b[i], nd - 1)])

RECURSIVE NestScale(_, _, _)
NestScale(c, a, nd) ==
    IF nd = 0 THEN c * a ELSE Eval([i \in 1..Len(a) |-> NestScale(c, a[i], nd - 1)])

\* the entries at the positions lo..hi (from 1) of axis ax
RECURSIVE NestSlice(_, _, _, _)
NestSlice(a, ax, lo, hi) ==
    IF ax = 0 THEN SubSeq(a, lo, hi)
    ELSE Eval([i \in 1..Len(a) |-> NestSlice(a[i], ax - 1, lo, hi)])

\* np.concatenate((a, b), axis=ax)
RECURSIVE NestConcat(_, _, _)
NestConcat(a, b, ax) ==
    IF ax = 0 THEN a \o b
    ELSE Eval([i \in 1..Len(a) |-> NestConcat(a[i], b[i], ax - 1)])

RECURSIVE NestSum(_, _)
NestSum(a, nd) ==
    IF nd = 0 THEN a
    ELSE IF Len(a) = 0 THEN 0
    ELSE NestSum(a[1], nd - 1) + NestSum(Tail(a), nd)

AxisLen(x, ax) == Shape(x)[ax + 1]

\* d *= w, the weight a number
Scaled(w, d) == ND(d.nd, NestScale(w, d.a, d.nd))

\* the sum of the products of the entries of two arrays of one shape
Inner(x, p) ==
    LET RECURSIVE dot(_, _, _)
        dot(a, b, nd) ==
            IF nd = 0 THEN a * b
            ELSE IF Len(a) = 0 THEN 0
            ELSE dot(a[1], b[1], nd - 1) + dot(Tail(a), Tail(b), nd)
    IN  dot(x.a, p.a, x.nd)

\* np.concatenate((x[1:] - x[:-1], np.zeros(one slice)), axis=ax), the slices
\* taken along axis ax
forward_difference(x, ax) ==
    LET n == AxisLen(x, ax)
        diff == NestSub(NestSlice(x.a, ax, 2, n), NestSlice(x.a, ax, 1, n - 1), x.nd)
        zeros == NestScale(0, NestSlice(x.a, ax, 1, 1), x.nd)
    IN  ND(x.nd, NestConcat(diff, zeros, ax))

\* np.concatenate((d[0], d[1:-2] - d[:-3], -d[-2]), axis=ax), the slices taken
\* along axis ax; d[-2] needs two entries along the axis
div_stencil(d, ax) ==
    LET n == AxisLen(d, ax)
        first == NestSlice(d.a, ax, 1, 1)
        inner == NestSub(NestSlice(d.a, ax, 2, n - 2), NestSlice(d.a, ax, 1, n - 3), d.nd)
        last == NestScale(-1, NestSlice(d.a, ax, n - 1, n - 1), d.nd)
    IN  ND(d.nd, NestConcat(NestConcat(first, inner, ax), last, ax))

(***************************************************************************)
(* norm_tv.grad and the _grad<k>d methods                                  *)
(***************************************************************************)
Parts(ps) == [tag |-> IF Len(ps) = 1 THEN "array" ELSE "tuple", parts |-> ps, err |-> ""]
None == [tag |-> "None", parts |-> <<>>, err |-> ""]
Throw(e) == [tag |-> "raise", parts |-> <<>>, err |-> e]

WeightNames == <<"wx", "wy", "wz", "wt">>
NoKw == [n \in {} |-> 0]

\* d *= kwargs[name], or the warning when there is no such weight
weighted(d, kw, name) == IF name \in DOMAIN kw THEN Scaled(kw[name], d) ELSE d

\* the body the four _grad<k>d methods share: the differences along the
\* axes below dim, at most maxdim of them, and None for any other dim
grad_axes(x, dim, kw, maxdim) ==
    IF dim < 1 \/ dim > maxdim THEN None
    ELSE Parts([k \in 1..dim |-> weighted(forward_difference(x, k - 1), kw, WeightNames[k])])

grad1d(x, dim, kw) == grad_axes(x, dim, kw, 2)
grad2d(x, dim, kw) == grad_axes(x, dim, kw, 3)
grad3d(x, dim, kw) == grad_axes(x, dim, kw, 4)
grad4d(x, dim, kw) == grad_axes(x, dim, kw, 4)

\* norm_tv.grad, which is norm_tv._grad
tv_grad(x, dim, kw) ==
    CASE x.nd = 2 -> grad1d(x, dim, kw)
      [] x.nd = 3 -> grad2d(x, dim, kw)
      [] x.nd = 4 -> grad3d(x, dim, kw)
      [] x.nd = 5 -> grad4d(x, dim, kw)
      [] OTHER -> None

(***************************************************************************)
(* norm_tv.div and the _div<k>d methods.  A divergence multiplies the      *)
(* arrays it is given in place: the result is [out, args], args the arrays *)
(* of the caller after the call.                                           *)
(***************************************************************************)
\* the arrays of args multiplied by their weights, the first k of them
weigh_args(args, kw, k) ==
    [i \in 1..Len(args) |-> IF i <= k THEN weighted(args[i], kw, WeightNames[i]) ELSE args[i]]

\* x = x + sign * term: the shapes of both have to agree
accumulate(x, sign, term) ==
    IF x.tag = "raise" THEN x
    ELSE IF Shape(x.parts[1]) # Shape(term) THEN Throw("ValueError")
    ELSE Parts(<<ND(term.nd, NestAdd(x.parts[1].a, NestScale(sign, term.a, term.nd), term.nd))>>)

\* the first k arrays of args along their axes, each with its sign, summed;
\* an axis shorter than 2 raises IndexError
RECURSIVE div_sum(_, _, _)
div_sum(args, signs, k) ==
    IF k = 1
    THEN IF AxisLen(args[1], 0) < 2 THEN Throw("IndexError")
         ELSE Parts(<<div_stencil(args[1], 0)>>)
    ELSE LET x == div_sum(args, signs, k - 1)
         IN  IF x.tag = "raise" THEN x
             ELSE IF AxisLen(args[k], k - 1) < 2 THEN Throw("IndexError")
             ELSE accumulate(x, signs[k], div_stencil(args[k], k - 1))

\* the number of arrays that were multiplied by their weight before the call
\* ended: all those used, or those up to the one that raised
RECURSIVE weighed(_, _, _)
weighed(args, signs, k) ==
    IF k = 1 THEN 1
    ELSE IF div_sum(args, signs, k - 1).tag = "raise" THEN weighed(args, signs, k - 1)
    ELSE k

div_axes(args, kw, signs) ==
    LET k == IF Len(args) < Len(signs) THEN Len(args) ELSE Len(signs)
        n == weighed(args, signs, k)
        after == weigh_args(args, kw, n)
    IN  [out |-> div_sum(after, signs, k), args |-> after]

\* _div1d: the second array is indexed as dy[:, 0, :], one index too many
\* for the two axes it has
div1d(args, kw) ==
    IF Len(args) = 0 THEN [out |-> Throw("UnboundLocalError"), args |-> args]
    ELSE IF Len(args) = 1 THEN div_axes(args, kw, <<1>>)
    ELSE LET first == div_axes(<<args[1]>>, kw, <<1>>)
         IN  IF first.out.tag = "raise"
             THEN [out |-> first.out, args |-> weigh_args(args, kw, 1)]
             ELSE [out |-> Throw("IndexError"), args |-> weigh_args(args, kw, 2)]

div2d(args, kw) ==
    IF Len(args) = 0 THEN [out |-> Throw("UnboundLocalError"), args |-> args]
    ELSE div_axes(args, kw, <<1, -1, 1>>)

div3d(args, kw) ==
    IF Len(args) = 0 THEN [out |-> Throw("UnboundLocalError"), args |-> args]
    ELSE div_axes(args, kw, <<1, 1, 1, 1>>)

div4d(args, kw) ==
    IF Len(args) = 0 THEN [out |-> Throw("UnboundLocalError"), args |-> args]
    ELSE div_axes(args, kw, <<1, 1, 1, 1>>)

\* norm_tv._div(dim, *args, **kwargs)
tv_div_dim(dim, args, kw) ==
    IF Len(args) = 0 THEN [out |-> Throw("ValueError"), args |-> args]
    ELSE CASE args[1].nd = 2 -> div1d(args, kw)
           [] args[1].nd = 3 -> div2d(args, kw)
           [] args[1].nd = 4 -> div3d(args, kw)
           [] args[1].nd = 5 -> div4d(args, kw)
           [] OTHER -> [out |-> None, args |-> args]

\* norm_tv.div(*args, **kwargs): _div takes the first array for its dim
tv_div(args, kw) ==
    IF Len(args) = 0 THEN [out |-> Throw("TypeError"), args |-> args]
    ELSE LET r == tv_div_dim(args[1], Tail(args), kw)
         IN  [out |-> r.out, args |-> <<args[1]>> \o r.args]

(***************************************************************************)
(* norm_tv._eval and norm_tv._prox                                         *)
(***************************************************************************)
\* the items an assignment grads[:dim+1] = g iterates over: the arrays of a
\* tuple, the slices along the first axis of a single array
items(g) ==
    IF g.tag = "tuple" THEN g.parts
    ELSE LET d == g.parts[1]
         IN  [i \in 1..Len(d.a) |-> ND(d.nd - 1, d.a[i])]

\* grads = ['dx', 'dy', 'dz', 'dt']; grads[:dim+1] = g: the names from
\* position dim+1 on stay in the list, behind the items of g
names_left(dim) == SubSeq(<<"dx", "dy", "dz", "dt">>, dim + 2, 4)

\* while i <= dim: y = np.sum(y, 0), i never advanced: every pass removes an
\* axis of y, and the pass on a y without axes raises
RECURSIVE sum_loop(_)
sum_loop(nd) == IF nd = 0 THEN Throw("AxisError") ELSE sum_loop(nd - 1)

\* norm_tv._eval(x, dim, **kwargs).  The for loop takes abs(g) of every entry
\* of grads, which raises on the first name left in the list; the values of
\* y never leave the method, only its number of axes is followed.
tv_eval(x, dim, kw) ==
    LET g == tv_grad(x, dim, kw)
    IN  IF g.tag = "None" THEN Throw("TypeError")
        ELSE IF Len(names_left(dim)) > 0 THEN Throw("TypeError")
        ELSE IF 0 <= dim THEN sum_loop(items(g)[1].nd)
        ELSE Parts(<<items(g)[1]>>)

\* numpy broadcasting of two shapes, aligned at their last axes
Broadcastable(sa, sb) ==
    \A i \in 1..(IF Len(sa) < Len(sb) THEN Len(sa) ELSE Len(sb)):
        LET a == sa[Len(sa) - i + 1]
            b == sb[Len(sb) - i + 1]
        IN  a = b \/ a = 1 \/ b = 1

RECURSIVE NestBroadcastSub(_, _, _, _)
NestBroadcastSub(a, nda, b, ndb) ==
    IF nda = 0 /\ ndb = 0 THEN a - b
    ELSE IF nda > ndb THEN Eval([i \in 1..Len(a) |-> NestBroadcastSub(a[i], nda - 1, b, ndb)])
    ELSE IF ndb > nda THEN Eval([i \in 1..Len(b) |-> NestBroadcastSub(a, nda, b[i], ndb - 1)])
    ELSE Eval([i \in 1..IMax(Len(a), Len(b)) |->
                  NestBroadcastSub(a[IF Len(a) = 1 THEN 1 ELSE i], nda - 1,
                                   b[IF Len(b) = 1 THEN 1 ELSE i], ndb - 1)])

\* x - T * d
tv_solution(x, T, d) ==
    ND(IMax(x.nd, d.nd), NestBroadcastSub(x.a, x.nd, NestScale(T, d.a, d.nd), d.nd))

ProxParams == {"tol", "verbose", "maxit", "weights"}
Option(kwargs, name, default) == IF name \in DOMAIN kwargs THEN kwargs[name] ELSE default

\* r, s = self.grad(x, dim): the value has to hold exactly two items
tv_unpack(g) ==
    IF g.tag = "None" THEN Throw("TypeError")
    ELSE IF Len(items(g)) # 2 THEN Throw("ValueError")
    ELSE Parts(items(g))

\* the first pass of the loop of norm_tv._prox, up to the statement that
\* raises: sol = x - T * self.div(r, s, **kweights), then obj from
\* self._eval(sol, dim, **kweights), then prev_obj.divide on the integer 0
tv_prox_pass(x, T, dim, r, s, kweights) ==
    LET d == tv_div(<<r, s>>, kweights).out
    IN  IF d.tag = "raise" THEN d
        ELSE IF d.tag = "None" THEN Throw("TypeError")
        ELSE IF ~Broadcastable(Shape(x), Shape(d.parts[1])) THEN Throw("ValueError")
        ELSE LET sol == tv_solution(x, T, d.parts[1])
                 e == tv_eval(sol, dim, kweights)
             IN  IF e.tag = "raise" THEN e ELSE Throw("AttributeError")

\* norm_tv._prox(x, T, dim, **kwargs): no return statement, so None when no
\* statement raises
tv_prox(x, T, dim, kwargs) ==
    LET verbose == Option(kwargs, "verbose", TRUE)
        maxit == Option(kwargs, "maxit", 200)
        weights == Option(kwargs, "weights", <<1, 1, 1, 1>>)
        rs == tv_unpack(tv_grad(x, dim, NoKw))
    IN  IF \E param \in DOMAIN kwargs: param \notin ProxParams THEN Throw("ValueError")
        ELSE IF rs.tag = "raise" THEN rs
        ELSE IF Len(weights) \in 1..3 THEN Throw("IndexError")
        ELSE LET kweights ==
                     [n \in {"wx", "wy", "wz", "wt"} |->
                         IF Len(weights) = 0 THEN 1
                         ELSE weights[CHOOSE k \in 1..4: WeightNames[k] = n]]
             IN  IF 0 <= maxit
                 THEN tv_prox_pass(x, T, dim, rs.parts[1], rs.parts[2], kweights)
                 ELSE IF verbose THEN Throw("UnboundLocalError")
                 ELSE None

\* the statements of norm_tv._prox before its loop (lines 802-845): the
\* exception one of them raises, None when the loop statement is reached
tv_prox_setup(x, dim, kwargs) ==
    LET weights == Option(kwargs, "weights", <<1, 1, 1, 1>>)
        rs == tv_unpack(tv_grad(x, dim, NoKw))
    IN  IF \E param \in DOMAIN kwargs: param \notin ProxParams THEN Throw("ValueError")
        ELSE IF rs.tag = "raise" THEN rs
        ELSE IF Len(weights) \in 1..3 THEN Throw("IndexError")
        ELSE None

\* the locals of norm_tv._prox when the call ends: iter is set to 0 before the
\* loop and no statement of the loop assigns it; passes counts the passes of
\* the loop that were started; crit is bound by the break of line 864, which
\* no pass reaches, or by the handler of NameError after the loop
tv_prox_locals(x, T, dim, kwargs) ==
    LET maxit == Option(kwargs, "maxit", 200)
        ready == tv_prox_setup(x, dim, kwargs).tag = "None"
    IN  [iter |-> 0,
         passes |-> IF ready /\ 0 <= maxit THEN 1 ELSE 0,
         crit |-> IF ready /\ ~(0 <= maxit) THEN "MAX_IT" ELSE "unbound"]

(***************************************************************************)
(* SpecTV: the methods of a norm_tv object applied to small arrays of one  *)
(* to three axes; thread t1 makes one call of grad, _eval or _prox, and   *)
(* thread t2 one call of the divergence                                    *)
(***************************************************************************)
TVShapes == {<<3>>, <<2, 2>>, <<3, 2>>, <<4, 2>>, <<2, 2, 2>>, <<3, 2, 2>>}
Patterns == {"flat", "ramp", "impulse"}

\* the entry at position k, counted along the rows from 0
Entry(pat, k) ==
    CASE pat = "flat" -> 1
      [] pat = "ramp" -> k
      [] pat = "impulse" -> IF k = 0 THEN 1 ELSE 0

RECURSIVE Build(_, _, _)
Build(shape, pat, k) ==
    IF shape = <<>> THEN Entry(pat, k)
    ELSE Eval([i \in 1..Head(shape) |-> Build(Tail(shape), pat, k * Head(shape) + (i - 1))])

Filled(shape, pat) == ND(Len(shape), Build(shape, pat, 0))
\* the arrays of nd axes the callers pass
TVArrays(nd) ==
    { Filled(shape, pat) : shape \in { sh \in TVShapes : Len(sh) = nd }, pat \in Patterns }
TVAxes == { Len(shape) : shape \in TVShapes }
MaxDim == 3
TVDims == 1..MaxDim
TVWeights == {NoKw, [wx |-> 2]}
TVOptions ==
    {NoKw, [maxit |-> -1], [maxit |-> -1, verbose |-> FALSE], [weights |-> <<>>],
     [weights |-> <<1, 1>>], [gamma |-> 1], [maxit |-> 0], [maxit |-> 2, tol |-> 1],
     [wx |-> 2], [wx |-> 1, wy |-> 1]}

\* the tuples p of dim arrays of one shape, of nd axes, a divergence is called with
Duals(nd) ==
    UNION { { [k \in 1..dim |-> Filled(shape, pats[k])] :
                pats \in [1..dim -> {"ramp", "impulse"}] } :
            shape \in { sh \in TVShapes : Len(sh) = nd }, dim \in 1..2 }

TVIdle ==
    [pc |-> "idle", op |-> "", x |-> ND(0, 0), dim |-> 0, T |-> 0, args |-> <<>>,
     kw |-> NoKw, out |-> None, after |-> <<>>,
     loc |-> [iter |-> 0, passes |-> 0, crit |-> "unbound"]]

TVEntered(op, x, dim, kw) == [TVIdle EXCEPT !.pc = op, !.op = op, !.x = x, !.dim = dim, !.kw = kw]

InitTV ==
    /\ obj = func_init("norm_tv", Defaults)
    /\ frame = [t \in Threads |-> TVIdle]

TVGradCall(t) ==
    /\ frame[t].pc = "idle"
    /\ \E nd \in TVAxes: \E x \in TVArrays(nd), dim \in TVDims, kw \in TVWeights:
          frame' = [frame EXCEPT ![t] = TVEntered("tv_grad", x, dim, kw)]
    /\ UNCHANGED obj

TVGradReturn(t) ==
    /\ frame[t].pc = "tv_grad"
    /\ Leave(t, tv_grad(frame[t].x, frame[t].dim, frame[t].kw))
    /\ UNCHANGED obj

TVEvalCall(t) ==
    /\ frame[t].pc = "idle"
    /\ \E nd \in TVAxes: \E x \in TVArrays(nd), dim \in TVDims, kw \in TVWeights:
          frame' = [frame EXCEPT ![t] = TVEntered("tv_eval", x, dim, kw)]
    /\ UNCHANGED obj

TVEvalReturn(t) ==
    /\ frame[t].pc = "tv_eval"
    /\ Leave(t, tv_eval(frame[t].x, frame[t].dim, frame[t].kw))
    /\ UNCHANGED obj

TVProxCall(t) ==
    /\ frame[t].pc = "idle"
    /\ \E nd \in TVAxes: \E x \in TVArrays(nd), dim \in TVDims, kw \in TVOptions:
          frame' = [frame EXCEPT ![t] = [TVEntered("tv_prox", x, dim, kw) EXCEPT !.T = 1]]
    /\ UNCHANGED obj

TVProxReturn(t) ==
    /\ frame[t].pc = "tv_prox"
    /\ LET f == frame[t]
       IN  frame' = [frame EXCEPT ![t].pc = "done",
                                  ![t].out = tv_prox(f.x, f.T, f.dim, f.kw),
                                  ![t].loc = tv_prox_locals(f.x, f.T, f.dim, f.kw)]
    /\ UNCHANGED obj

\* div(dim, *p, **kw) with as many arrays as dim
TVDivCall(t) ==
    /\ frame[t].pc = "idle"
    /\ \E nd \in TVAxes: \E p \in Duals(nd), kw \in TVWeights:
          frame' = [frame EXCEPT ![t] =
                       [TVEntered("tv_div", ND(0, 0), Len(p), kw) EXCEPT !.args = p]]
    /\ UNCHANGED obj

\* the arrays of the caller are those the divergence has multiplied in place
TVDivReturn(t) ==
    /\ frame[t].pc = "tv_div"
    /\ LET r == tv_div(<<frame[t].dim>> \o frame[t].args, frame[t].kw)
       IN  frame' = [frame EXCEPT ![t].pc = "done", ![t].out = r.out,
                                  ![t].after = Tail(r.args)]
    /\ UNCHANGED obj

NextTV ==
    \/ TVGradCall("t1") \/ TVGradReturn("t1")
    \/ TVEvalCall("t1") \/ TVEvalReturn("t1")
    \/ TVProxCall("t1") \/ TVProxReturn("t1")
    \/ TVDivCall("t2") \/ TVDivReturn("t2")

SpecTV == InitTV /\ [][NextTV]_vars

(***************************************************************************)
(* SpecStep: the last statements of a pass of the loop of norm_tv._prox,   *)
(* lines 876-881, applied to values of told and of a dual component: the   *)
(* time step, the extrapolation and the shift of the momentum              *)
(***************************************************************************)
\* t = (1 + np.sqrt(4*told**2))/2
tv_time_step(told) ==
    FDiv(FAdd(R(1), FSqrt(FMul(R(4), FMul(told, told)))), R(2))

\* r = p + (told - 1)/t * (p - pold)
tv_extrapolate(p, pold, told, t) ==
    VAdd(p, VScale(FDiv(FSub(told, R(1)), t), VSub(p, pold)))

\* the values of told the step is applied to: 1, the value at the start of the
\* loop, and values whose successor by the FISTA rule is rational
StepStarts == {R(1), R(0), Rat(3, 8), Rat(2, 3), Rat(6, 5), Rat(5, 24)}
\* the values of a dual component after its normalisation
StepDuals == {Vec(<<1, 0>>), Vec(<<0, 1>>), <<Rat(1, 2), Rat(-1, 2)>>}
StepMax == 2

StepFrame(told, p, pold) ==
    [pc |-> "ready", told |-> told, t |-> R(0), p |-> p, pold |-> pold, r |-> pold,
     was |-> [told |-> told, pold |-> pold], passes |-> 0]

InitStep ==
    /\ obj = func_init("norm_tv", Defaults)
    /\ \E told \in StepStarts, p \in StepDuals, pold \in StepDuals:
          frame = [t \in Threads |->
                      IF t = "t1" THEN StepFrame(told, p, pold)
                      ELSE StepFrame(R(1), Vec(<<1, 0>>), Vec(<<1, 0>>))]

\* t = ...; r = p + (told - 1)/t * (p - pold); pold = p; told = t
TVTimeStep(t) ==
    /\ frame[t].pc = "ready"
    /\ LET f == frame[t]
           tn == tv_time_step(f.told)
       IN  frame' = [frame EXCEPT ![t] =
                        [f EXCEPT !.pc = "stepped", !.t = tn,
                                  !.r = tv_extrapolate(f.p, f.pold, f.told, tn),
                                  !.pold = f.p, !.told = tn,
                                  !.was = [told |-> f.told, pold |-> f.pold],
                                  !.passes = f.passes + 1]]
    /\ UNCHANGED obj

\* the next pass up to its normalisation, p = r / weights: a new value of p
TVNextDual(t) ==
    /\ frame[t].pc = "stepped"
    /\ frame[t].passes < StepMax
    /\ \E p \in StepDuals: frame' = [frame EXCEPT ![t].pc = "ready", ![t].p = p]
    /\ UNCHANGED obj

NextStep == TVTimeStep("t1") \/ TVNextDual("t1")

SpecStep == InitStep /\ [][NextStep]_vars

(***************************************************************************)
(* the properties                                                          *)
(***************************************************************************)
Done(t, op) == frame[t].pc = "done" /\ frame[t].op = op
Primitives == {"eval", "grad", "prox"}

\* the outcome of the call of frame f on object o when nothing else runs
Alone(o, f) ==
    CASE f.op = "eval" -> func_eval(o, f.x)
      [] f.op = "grad" -> func_grad(o, f.x)
      [] f.op = "prox" -> func_prox(o, f.x, f.T)

\* the capabilities of o at x: the primitives that do not raise NotImplementedError
Supported(o, x) ==
    SelectSeq(<<"EVAL", "GRAD", "PROX">>,
              LAMBDA c: ~Raises(CASE c = "EVAL" -> func_eval(o, x)
                                  [] c = "GRAD" -> func_grad(o, x)
                                  [] c = "PROX" -> func_prox(o, x, R(1)),
                                "NotImplementedError"))

\* C1: the list cap(x) returns holds exactly the primitives among EVAL, GRAD,
\* PROX whose call on x does not raise NotImplementedError: all three for
\* dummy, EVAL alone for an object that defines only _eval, EVAL and GRAD for
\* one that defines _eval and _grad, and never GRAD for norm_l1.
C1_CapReportsSupported ==
    \A t \in Threads:
        Done(t, "cap") /\ frame[t].out.tag = "caps" =>
            /\ frame[t].out.caps = Supported(obj, frame[t].x)
            /\ obj.kind = "dummy" => frame[t].out.caps = <<"EVAL", "GRAD", "PROX">>
            /\ obj.kind = "func_eval" => frame[t].out.caps = <<"EVAL">>
            /\ obj.kind = "func_eval_grad" => frame[t].out.caps = <<"EVAL", "GRAD">>
            /\ obj.kind = "norm_l1" => \A i \in 1..Len(frame[t].out.caps): frame[t].out.caps[i] # "GRAD"

C1_Witness ==
    \E t \in Threads:
        /\ Done(t, "cap") /\ obj.kind = "norm_l1" /\ ~obj.tight
        /\ frame[t].out.caps = <<"EVAL">>

\* C2: no step of an eval, grad, prox or cap call, returning or raising,
\* changes y, A, At, tight, nu, tol, maxit, lambda_, w, epsilon or method.
C2_ConfigUnchanged == [][Config(obj') = Config(obj)]_vars

C2_Witness ==
    /\ obj.kind = "proj_b2"
    /\ Done("t1", "prox") /\ frame["t1"].loc.niter >= 2
    /\ Done("t2", "cap")

\* C3: the outcome of a finished eval, grad or prox call (the value or the
\* exception, and for proj_b2 the iteration count and the stop reason) is
\* the one the same call has with the verbosity flag at NONE.
C3_VerbosityIndependent ==
    \A t \in Threads:
        frame[t].pc = "done" /\ frame[t].op \in Primitives =>
            LET quiet == [obj EXCEPT !.verbosity = "NONE"]
            IN  /\ frame[t].out = Alone(quiet, frame[t])
                /\ obj.kind = "proj_b2" /\ frame[t].op = "prox" =>
                      LET l == b2_run(quiet, frame[t].x)
                      IN  frame[t].loc.niter = l.niter /\ frame[t].loc.crit = l.crit

\* C4: a finished eval, grad or prox call whose steps were interleaved with
\* those of another call has the outcome it has when run alone, and a prox
\* call of proj_b2 ends with the iteration state (sol, u, v_last, t_last,
\* niter, stop reason) of the call run alone.
C4_InterleavedAsAlone ==
    \A t \in Threads:
        frame[t].pc = "done" /\ frame[t].op \in Primitives =>
            /\ frame[t].out = Alone(obj, frame[t])
            /\ obj.kind = "proj_b2" /\ frame[t].op = "prox" =>
                  frame[t].loc = b2_run(obj, frame[t].x)

C4_Witness ==
    /\ obj.kind = "proj_b2" /\ ~obj.tight
    /\ Done("t2", "prox") /\ frame["t2"].loc.niter >= 2
    /\ frame["t1"].pc = "b2_loop" /\ frame["t1"].loc.niter >= 1
    /\ frame["t1"].x # frame["t2"].x

\* C8: prox of a norm_l1 or norm_l2 built with tight = False raises
\* NotImplementedError, for every x and T, and returns nothing.
C8_NonTightNotSupported ==
    \A t \in Threads:
        Done(t, "prox") /\ obj.kind \in {"norm_l1", "norm_l2"} /\ ~obj.tight =>
            Raises(frame[t].out, "NotImplementedError")

C8_Witness ==
    \E t \in Threads:
        /\ Done(t, "prox") /\ obj.kind = "norm_l1" /\ ~obj.tight
        /\ obj.A.form = "ndarray" /\ frame[t].out.tag = "raise"

\* sign(z) * max(|z| - T, 0)
Shrink(z, T) == FMul(FSign(z), FMaximum(FSub(FAbs(z), T), R(0)))

\* C5: in its default mode _soft_threshold(z, T), for real z and T >= 0, is
\* sign(z)*max(|z|-T, 0) in every coordinate; a threshold 0 returns z, and
\* z = 0 returns 0, also for T = 0 where 0/0 gives 0 and not NaN.
C5_SoftThreshold ==
    \A t \in Threads:
        Done(t, "soft") /\ frame[t].flag =>
            LET z == frame[t].x
                T == frame[t].T
                r == frame[t].out.data
            IN  /\ Len(r) = Len(z)
                /\ \A i \in 1..Len(z):
                      /\ r[i] = Shrink(z[i], At1(T, i))
                      /\ At1(T, i) = R(0) => r[i] = z[i]
                      /\ z[i] = R(0) => r[i] = R(0)
                      /\ ~IsNaN(r[i])

C5_Witness ==
    /\ Done("t1", "soft") /\ frame["t1"].flag
    /\ frame["t1"].x = <<R(0), R(-2)>> /\ frame["t1"].T = <<R(0), Rat(1, 2)>>
    /\ frame["t1"].out.data = <<R(0), Rat(-3, 2)>>

\* 1/2*||x - z||^2 + T*f(z) for the object o
ProxObjective(o, x, T, z) ==
    LET d == VSub(x, z)
    IN  FAdd(FMul(Rat(1, 2), VSum(VMul(d, d))), FMul(T, call_eval(o, z).data[1]))

\* the points z is compared with: the grid of halves that holds the data for
\* a point of two coordinates, the neighbours of z for a longer one
Moves == {Rat(-1, 2), R(0), Rat(1, 2)}
Candidates(z) ==
    IF Len(z) = 2 THEN { <<a, b>> : a, b \in Halves }
    ELSE { VAdd(z, <<a, b, c, d>>) : a, b, c, d \in Moves }

Pairing(g, p) ==
    LET RECURSIVE upto(_)
        upto(k) == IF k = 0 THEN 0 ELSE upto(k - 1) + Inner(g[k], p[k])
    IN  upto(Len(p))

\* C9: for dim in 1..4 and arrays x and p of matching shape, divergence(p, dim)
\* has the shape of x and <gradient(x, dim), p> = <x, divergence(p, dim)>,
\* summed over the dim components, exactly on integer arrays.
C9_DivergenceAdjoint ==
    \A a, b \in Threads:
        LET f == frame[a]
            h == frame[b]
        IN  (/\ Done(a, "tv_grad") /\ Done(b, "tv_div")
             /\ f.dim = h.dim /\ f.dim \in 1..4
             /\ f.kw = NoKw /\ h.kw = NoKw
             /\ f.out.tag \in {"array", "tuple"}
             /\ Len(h.args) = f.dim
             /\ \A k \in 1..Len(h.args): Shape(h.args[k]) = Shape(f.x))
            => /\ h.out.tag = "array"
               /\ Shape(h.out.parts[1]) = Shape(f.x)
               /\ Pairing(f.out.parts, h.args) = Inner(f.x, h.out.parts[1])

\* an array all of whose entries are equal
Flat(x) == x = Filled(Shape(x), "flat")

\* C10: for a constant-valued array x, dim in 1..4 and T > 0, the TV seminorm
\* of x is 0 and the TV proximal operator returns an array equal to x.
C10_FlatSignalFixed ==
    \A t \in Threads:
        LET f == frame[t]
        IN  /\ (Done(t, "tv_eval") /\ Flat(f.x) /\ f.dim \in 1..4 /\ f.kw = NoKw)
                => f.out.tag = "array" /\ f.out.parts[1] = ND(0, 0)
            /\ (Done(t, "tv_prox") /\ Flat(f.x) /\ f.dim \in 1..4 /\ f.T > 0 /\ f.kw = NoKw)
                => f.out.tag = "array" /\ f.out.parts[1] = f.x

\* ||y - A(x)||_2 <= epsilon
InBall(o, x) == FLe(VNorm(VSub(o.y, Apply(o.A, x))), o.epsilon)

\* the method is one the identity tests of proj_b2._prox accept
Recognised(o) == IsMethod(o, "FISTA") \/ IsMethod(o, "ISTA")

\* 0 <= tol < 1: the band around the ball is defined
Banded(o) == FLe(R(0), o.tol) /\ FLt(o.tol, R(1))

Capped(kw) == DOMAIN kw \subseteq ProxParams /\ 0 <= Option(kw, "maxit", 200)

\* C12: every call of the TV proximal operator ends without an exception, after
\* at most maxit passes of its loop, with an iteration counter that has counted
\* the passes, and with the stop reason TOL_EPS or MAX_IT.
C12_TVProxStops ==
    \A t \in Threads:
        LET f == frame[t]
        IN  (Done(t, "tv_prox") /\ Len(Shape(f.x)) = 2 /\ f.dim = 2 /\ Capped(f.kw))
            => /\ f.out.tag # "raise"
               /\ f.loc.passes <= Option(f.kw, "maxit", 200)
               /\ f.loc.iter = f.loc.passes
               /\ f.loc.crit \in {"TOL_EPS", "MAX_IT"}
\* epsilon/(1 + tol) <= n <= epsilon/(1 - tol)
InBand(o, n) == FLe(epsilon_low(o), n) /\ FLe(n, epsilon_up(o))

\* C13: with tight = False and the method FISTA or ISTA, a prox call of
\* proj_b2 returns after at most maxit passes of its loop, for any maxit >= 0,
\* with the stop reason INBALL, TOL or MAXIT: INBALL exactly when the residual
\* norm on entry is at most epsilon/(1 - tol), then with zero passes; MAXIT only
\* when the count has reached maxit and the tested norm is outside the band.
C13_BallLoopStops ==
    \A t \in Threads:
        LET l == frame[t].loc
            entry == VNorm(VSub(obj.y, Apply(obj.A, frame[t].x)))
        IN  (/\ Done(t, "prox") /\ obj.kind = "proj_b2" /\ ~obj.tight
             /\ Recognised(obj) /\ Banded(obj) /\ obj.maxit >= 0)
            => /\ frame[t].out = Array(l.sol)
               /\ l.niter <= obj.maxit
               /\ l.crit \in {"INBALL", "TOL", "MAXIT"}
               /\ l.crit = "INBALL" <=> FLe(entry, epsilon_up(obj))
               /\ l.crit = "INBALL" => l.niter = 0
               /\ l.crit = "MAXIT" => l.niter >= obj.maxit /\ ~InBand(obj, l.norm_res)
\* C14: a prox call on a proj_b2 whose method is neither FISTA nor ISTA raises
\* ValueError before any pass of the loop and returns no point, for tight
\* True and False, with x inside or outside of the ball.
C14_UnknownMethodAborts ==
    \A t \in Threads:
        (Done(t, "prox") /\ obj.kind = "proj_b2" /\ obj.method.text \notin {"FISTA", "ISTA"})
        => frame[t].out = Raise("ValueError") /\ frame[t].loc.niter = 0
\* the names of the weights of the axes
AxisWeights == { WeightNames[k] : k \in 1..4 }

\* C15: a call of the TV proximal operator with a keyword that is neither an
\* option nor the weight of an axis raises ValueError before any pass of the
\* loop, and a call whose keywords are weights of axes (wx, wy, wz, wt) is
\* accepted: it raises no configuration error and reaches the loop.
C15_ProxKeywords ==
    \A t \in Threads:
        LET f == frame[t]
            names == DOMAIN f.kw
        IN  (Done(t, "tv_prox") /\ Len(Shape(f.x)) = 2 /\ f.dim = 2)
            => /\ (\E k \in names: k \notin ProxParams \cup AxisWeights)
                    => f.out = Throw("ValueError") /\ f.loc.passes = 0
               /\ (names # {} /\ names \subseteq AxisWeights)
                    => f.out # Throw("ValueError") /\ f.loc.passes = 1
\* the positions of the entries of an array of the given shape
Positions(shape) ==
    { idx \in [1..Len(shape) -> 1..4] : \A i \in 1..Len(shape): idx[i] <= shape[i] }

\* the entry of the nested tuples a at the position idx
RECURSIVE EntryAt(_, _)
EntryAt(a, idx) == IF Len(idx) = 0 THEN a ELSE EntryAt(a[Head(idx)], Tail(idx))

\* d has the shape of x, and its entry at i is w * (x[i+1] - x[i]) along the
\* axis k, 0 at the last position of the axis
IsDifference(d, x, k, w) ==
    /\ d.nd = x.nd
    /\ Shape(d) = Shape(x)
    /\ \A idx \in Positions(Shape(x)):
          EntryAt(d.a, idx) =
              IF idx[k] < Shape(x)[k]
              THEN w * (EntryAt(x.a, [idx EXCEPT ![k] = @ + 1]) - EntryAt(x.a, idx))
              ELSE 0

\* C16: for an array x of N axes, 1 <= N <= 4, and 1 <= dim <= N, the gradient
\* is one array per axis 1..dim in the order of the axes, a single array when
\* dim = 1 and a tuple otherwise, each of the shape of x with the entries
\* x[i+1] - x[i] along its axis and zeros in the last slice; an axis without a
\* weight is left unscaled and the call raises nothing.
C16_GradientPerAxis ==
    \A t \in Threads:
        LET f == frame[t]
            N == Len(Shape(f.x))
        IN  (Done(t, "tv_grad") /\ N \in 1..4 /\ f.dim \in 1..N)
            => /\ f.out.tag = (IF f.dim = 1 THEN "array" ELSE "tuple")
               /\ Len(f.out.parts) = f.dim
               /\ \A k \in 1..f.dim:
                     IsDifference(f.out.parts[k], f.x, k,
                                  Option(f.kw, WeightNames[k], 1))
\* C17: with tight = False, a prox call of proj_b2 that stops with the reason
\* TOL returns a point sol with epsilon/(1 + tol) <= ||y - A(sol)||_2 <=
\* epsilon/(1 - tol): the norm that passed the test is that of the returned
\* point.
C17_TolPointInBand ==
    \A t \in Threads:
        LET l == frame[t].loc
        IN  (/\ Done(t, "prox") /\ obj.kind = "proj_b2" /\ ~obj.tight
             /\ Recognised(obj) /\ Banded(obj) /\ l.crit = "TOL")
            => /\ frame[t].out = Array(l.sol)
               /\ InBand(obj, VNorm(VSub(obj.y, Apply(obj.A, l.sol))))
               /\ l.norm_res = VNorm(VSub(obj.y, Apply(obj.A, l.sol)))
\* the square root of q is a number of the model: no rounding takes place
ExactRoot(q) == FMul(FSqrt(q), FSqrt(q)) = q

OnlyCall(t) == \A u \in Threads \ {t}: frame[u].pc = "idle"

\* C19: when a call of cap(x) ends, by the return of the list or by an
\* exception other than NotImplementedError that a primitive raised, the
\* verbosity of the object is the one it had before the call.
C19_CapRestores ==
    \A t \in Threads:
        (Done(t, "cap") /\ OnlyCall(t)) => obj.verbosity = frame["main"].verbosity

\* C20: after two interleaved calls of cap on one object have both returned,
\* the verbosity is the one the object had before either started; and a call
\* of eval that runs while another thread calls cap returns what it returns
\* without that call.
C20_CapsInterleaved ==
    /\ (\A t \in Threads: Done(t, "cap") /\ frame[t].out = CapList(frame[t].cap))
          => obj.verbosity = frame["main"].verbosity
    /\ \A t \in Threads:
          (/\ Done(t, "eval")
           /\ \A u \in Threads \ {t}: frame[u].op = "cap" /\ frame[u].out.tag # "raise")
          => frame[t].out = func_eval([obj EXCEPT !.verbosity = frame["main"].verbosity],
                                      frame[t].x)
\* C21: a call of the TV divergence leaves the arrays passed to it unchanged,
\* for any weights of the axes: after the call each argument holds the values
\* it held before, and a second call on the same arguments gives the result
\* of the first.
C21_DivKeepsArguments ==
    \A t \in Threads:
        LET f == frame[t]
        IN  Done(t, "tv_div")
            => /\ f.after = f.args
               /\ tv_div(<<f.dim>> \o f.after, f.kw).out = f.out
\* x + c * e_i, e_i the unit vector of coordinate i
Shifted(x, i, c) == Eval([j \in 1..Len(x) |-> IF j = i THEN FAdd(x[j], R(c)) ELSE x[j]])

\* C22: for norm_l2 with A the identity and any lambda_, y and w, grad(x) is
\* the derivative of eval at x, eval(x + e_i) - eval(x - e_i) = 2*grad(x)[i]
\* in every coordinate i, and the point z that prox(x, T) returns satisfies
\* z - x + T*grad(z) = 0.
C22_GradIsDerivative ==
    \A t \in Threads:
        LET f == frame[t]
            plain == obj.kind = "norm_l2" /\ obj.A.form = "identity"
        IN  /\ (Done(t, "grad") /\ plain)
                => /\ f.out.tag = "array"
                   /\ Len(f.out.data) = Len(f.x)
                   /\ \A i \in 1..Len(f.x):
                         FSub(func_eval(obj, Shifted(f.x, i, 1)).data[1],
                              func_eval(obj, Shifted(f.x, i, -1)).data[1])
                             = FMul(R(2), f.out.data[i])
            /\ (Done(t, "prox") /\ plain /\ obj.tight)
                => /\ f.out.tag = "array"
                   /\ VAdd(VSub(f.out.data, f.x),
                           VScale(f.T, func_grad(obj, f.out.data).data))
                          = VZeros(Len(f.x))
====
